---- MODULE Spec2Model ----
(***************************************************************************)
(* The collection -> store -> broadcast engine of server.js (the second,   *)
(* current version of the file, lines 299-558): three collectors that      *)
(* shell out to PowerShell scripts, the stored current data and the        *)
(* metrics history, the pull routes, the WebSocket connection handler and  *)
(* broadcastToClients driven by three setInterval timers.                  *)
(*                                                                         *)
(* Node runs every callback to completion and drains the promise           *)
(* continuations it queued before the next event is dispatched, so one     *)
(* action below is one event together with the continuations it resumes:   *)
(* the close of a script process settles executePowerShellScript, resumes  *)
(* the collector after its await and then resumes the caller (timer        *)
(* callback or route handler) after its await.                             *)
(*                                                                         *)
(* JavaScript objects are records whose DOMAIN is the set of keys present; *)
(* arrays are sequences.                                                   *)
(***************************************************************************)
EXTENDS Integers, Sequences, FiniteSets, TLC

\* ------------------------------------------------------------------ bounds
\* script runs / demo collections that timers and pull requests may start
MaxCollections == 1
\* WebSocket connections accepted during a run
MaxClients == 1
\* the same two bounds for the runs of a server that has finished its startup
RunCollections == 2
RunClients == 2
\* metrics collections started in the runs of a server with a nearly full history
WarmCollections == 3
\* seconds of running time in the runs on a clock
MaxUptime == 9
\* ticks and connections in the runs whose timers keep firing
LiveCollections == 2
LiveClients == 1
\* collections started and status reads in the runs that observe a script exit
ScriptCollections == 2
ScriptReads == 2
\* ticks and connections in the runs that end with SIGINT
StopCollections == 1
StopClients == 1

\* --------------------------------------------------------------- constants
MAX_HISTORY == 100

Kinds == {"metrics", "eventlogs", "diagnostics"}
Origins == {"startup", "timer", "pull"}

\* WebSocket readyState values
OPEN == 1
CLOSING == 2
CLOSED == 3

VARIABLES
    DEMO_MODE,          \* const DEMO_MODE = !isWindows
    listening,          \* the app.listen callback has run
    currentMetrics,     \* let currentMetrics
    eventLogs,          \* let eventLogs
    systemDiagnostics,  \* let systemDiagnostics
    metricsHistory,     \* let metricsHistory
    running,            \* script processes spawned and not yet closed
    nextId,             \* per kind, the stamp of the next collection that is started
    now,                \* number of readings of the clock (new Date()) so far
    wssClients,         \* wss.clients
    readyState,         \* readyState of every socket accepted so far
    dead,               \* sockets whose peer is gone, not yet noticed by the server
    inbox,              \* messages delivered to every socket accepted so far
    cycles,             \* log: per kind, every collection that has returned, in order
    points,             \* log: every point appended to metricsHistory, in order
    broadcasts,         \* log: per kind, every run of broadcastToClients
    responses,          \* log: per kind, every response of a pull route
    process,            \* the Node process: "running", "closing" after SIGINT,
                        \* "exited", or "crashed" by an uncaught error
    uptime,             \* whole seconds since the setInterval timers were set
    exited,             \* <<>>, or <<how the script process that exited last ended>>
    statusLog,          \* log: every response of GET /api/status
    \* the dashboard page (public/app.js)
    loaded,             \* the DOMContentLoaded handler has run
    ws,                 \* let ws: <<>> for null, <<readyState>> of the socket it names
    orphans,            \* sockets not yet closed that ws no longer names
    reconnect,          \* seconds left of every pending setTimeout(connectWebSocket, 5000)
    fallback,           \* seconds left until the fallback setInterval callback runs
    fetched,            \* the kinds the fallback callback requested when it ran last
    connected,          \* the status indicator set by updateConnectionStatus
    retried,            \* a reconnect timeout has run connectWebSocket
    reachable           \* the server accepts connections from the page

store == <<currentMetrics, eventLogs, systemDiagnostics, metricsHistory>>
hub == <<wssClients, readyState, dead, inbox>>
logs == <<cycles, points, broadcasts, responses>>
host == <<process, uptime>>
probe == <<exited, statusLog>>
page == <<loaded, ws, orphans, reconnect, fallback, fetched, connected, retried, reachable>>
vars == <<DEMO_MODE, host, listening, store, running, nextId, now, hub, logs, probe, page>>

\* ------------------------------------------------------------ JS helpers
EmptyObj == [x \in {} |-> x]
Has(o, key) == key \in DOMAIN o

ZeroSummary == [critical |-> 0, high |-> 0, medium |-> 0, low |-> 0]

\* mutant: the diagnostics start with an issue recorded
StaleDiagnostics ==
    [issues |-> <<0>>, warnings |-> <<>>,
     summary |-> [critical |-> 1, high |-> 0, medium |-> 0, low |-> 0]]

InitialDiagnostics == [issues |-> <<>>, warnings |-> <<>>, summary |-> ZeroSummary]

Range(s) == {s[i] : i \in DOMAIN s}
Last(s) == s[Len(s)]
\* the last n elements of s (all of s when it has fewer)
LastN(s, n) == IF Len(s) <= n THEN s ELSE SubSeq(s, Len(s) - n + 1, Len(s))

\* ------------------------------------------------- the collector scripts
\* What a script run writes to stdout: the JSON text of a document (valid),
\* or text that is no JSON (an empty or truncated output).  Every document
\* carries the script's own timestamp; a run is stamped with its id.
ScriptData(kind, id) ==
    CASE kind = "metrics" ->
           [cpu |-> id % 100, memory |-> [percent |-> (id + 50) % 100], timestamp |-> id]
      [] kind = "eventlogs" ->
           [events |-> <<id>>, timestamp |-> id, count |-> 1]
      [] kind = "diagnostics" ->
           [issues |-> <<id>>, warnings |-> <<>>,
            summary |-> [critical |-> 1, high |-> 0, medium |-> 0, low |-> 0],
            totalIssues |-> 1, timestamp |-> id]

\* the document the catch block of a script prints
ScriptError(kind, id) ==
    CASE kind = "metrics" ->
           [error |-> "script exception", timestamp |-> id]
      [] kind = "eventlogs" ->
           [error |-> "script exception", timestamp |-> id, events |-> <<>>, count |-> 0]
      [] kind = "diagnostics" ->
           [error |-> "script exception", timestamp |-> id,
            issues |-> <<>>, warnings |-> <<>>, summary |-> ZeroSummary]

Stdouts(kind, id) ==
    { [valid |-> TRUE, doc |-> ScriptData(kind, id), raw |-> "json"],
      [valid |-> TRUE, doc |-> ScriptError(kind, id), raw |-> "json"],
      [valid |-> FALSE, doc |-> EmptyObj, raw |-> "garbage"] }

Stderrs == {"", "powershell error"}
ExitCodes == {0, 1}

\* JSON.parse(output.trim()): the document of a JSON text; throws otherwise
ParseThrows(output) == ~output.valid
JSONparse(output) == output.doc

\* mutant: every non-zero exit code rejects, whatever stderr holds
executeRejectOnExit(code, errorOutput, output) ==
    IF code # 0
    THEN [settled |-> "reject", value |-> [message |-> errorOutput]]
    ELSE IF output.valid
         THEN [settled |-> "resolve", value |-> output.doc]
         ELSE [settled |-> "resolve",
               value |-> [error |-> "Failed to parse JSON", raw |-> output.raw]]

\* the 'close' handler of executePowerShellScript: how the promise settles
executePowerShellScript(code, errorOutput, output) ==
    IF code # 0 /\ errorOutput # ""
    THEN [settled |-> "reject", value |-> [message |-> errorOutput]]
    ELSE IF ~ParseThrows(output)
         THEN [settled |-> "resolve", value |-> JSONparse(output)]
         ELSE [settled |-> "resolve",
               value |-> [error |-> "Failed to parse JSON", raw |-> output.raw]]

\* ------------------------------------------------------- demo-mode results
generateDemoMessage ==
    [error |-> "DEMO MODE - Real Windows 11 Required",
     message |-> "This monitoring tool requires Windows 11 to collect real system data.",
     instructions |-> "run this application on Windows with: npm start",
     demoMode |-> TRUE]

DemoEventLogs == [events |-> <<>>, message |-> "Run on Windows 11 to see real error logs"]

DemoDiagnostics(stamp) ==
    [issues |-> <<>>, warnings |-> <<>>,
     info |-> <<[message |-> "This monitoring tool requires Windows 11"]>>,
     summary |-> ZeroSummary, totalIssues |-> 0, timestamp |-> stamp]

\* ------------------------------------------------------------- the store
\* mutant: the point takes its cpu from the memory figure and the reverse
HistoryPointSwapped(data, stamp) ==
    [timestamp |-> stamp,
     cpu |-> IF Has(data, "memory") THEN data.memory.percent ELSE 0,
     memory |-> IF Has(data, "cpu") THEN data.cpu ELSE 0]

\* the point collectMetrics derives from the data it stores
HistoryPoint(data, stamp) ==
    [timestamp |-> stamp,
     cpu |-> IF Has(data, "cpu") THEN data.cpu ELSE 0,
     memory |-> IF Has(data, "memory") THEN data.memory.percent ELSE 0]

\* mutant: the history is never trimmed
PushHistoryNoShift(history, point) == Append(history, point)

\* mutant: the full history drops its newest point (pop) instead of its oldest
PushHistoryPop(history, point) ==
    LET pushed == Append(history, point)
    IN  IF Len(pushed) > MAX_HISTORY THEN SubSeq(pushed, 1, Len(pushed) - 1) ELSE pushed

\* metricsHistory.push(point); if (metricsHistory.length > MAX_HISTORY) shift()
PushHistory(history, point) ==
    LET pushed == Append(history, point)
    IN  IF Len(pushed) > MAX_HISTORY THEN Tail(pushed) ELSE pushed

\* what a collector returns once executePowerShellScript has settled as s
Returned(kind, s) ==
    IF s.settled = "resolve" THEN s.value
    ELSE CASE kind = "metrics" -> [error |-> s.value.message]
           [] kind = "eventlogs" -> [error |-> s.value.message, events |-> <<>>]
           [] kind = "diagnostics" ->
                [error |-> s.value.message, issues |-> <<>>, warnings |-> <<>>,
                 summary |-> ZeroSummary, totalIssues |-> 0]

\* the assignments of collectMetrics after its await
collectMetrics(s) ==
    IF s.settled = "resolve"
    THEN LET point == HistoryPoint(s.value, now + 1)
         IN  /\ currentMetrics' = s.value
             /\ metricsHistory' = PushHistory(metricsHistory, point)
             /\ now' = now + 1
             /\ points' = Append(points, point)
             /\ UNCHANGED <<eventLogs, systemDiagnostics>>
    ELSE UNCHANGED <<store, now, points>>

\* the assignments of collectEventLogs after its await
collectEventLogs(s) ==
    IF s.settled = "resolve"
    THEN /\ eventLogs' = IF Has(s.value, "events") THEN s.value.events ELSE <<>>
         /\ UNCHANGED <<currentMetrics, systemDiagnostics, metricsHistory, now, points>>
    ELSE UNCHANGED <<store, now, points>>

\* the assignments of collectDiagnostics after its await
collectDiagnostics(s) ==
    IF s.settled = "resolve"
    THEN /\ systemDiagnostics' = s.value
         /\ UNCHANGED <<currentMetrics, eventLogs, metricsHistory, now, points>>
    ELSE UNCHANGED <<store, now, points>>

Collect(kind, s) ==
    CASE kind = "metrics" -> collectMetrics(s)
      [] kind = "eventlogs" -> collectEventLogs(s)
      [] kind = "diagnostics" -> collectDiagnostics(s)

\* the log entry of a collection that has returned
Cycle(data, settled, origin) == [data |-> data, settled |-> settled, origin |-> origin]
Logged(kind, data, settled, origin) ==
    cycles' = [cycles EXCEPT ![kind] = Append(@, Cycle(data, settled, origin))]

\* what a collector returns at once in demo mode (nothing is stored)
DemoResult(kind) ==
    CASE kind = "metrics" -> generateDemoMessage
      [] kind = "eventlogs" -> DemoEventLogs
      [] kind = "diagnostics" -> DemoDiagnostics(now + 1)

\* the clock after a demo collection: only collectDiagnostics reads it
DemoClock(kind) == IF kind = "diagnostics" THEN now + 1 ELSE now

\* --------------------------------------------------------------- the hub
\* mutant: the connection handler sends no diagnostics message
InitialMessagesNoDiagnostics ==
    << [type |-> "metrics", data |-> currentMetrics, cycle |-> 0],
       [type |-> "eventlogs", data |-> [events |-> eventLogs], cycle |-> 0] >>

\* the three messages the connection handler sends
InitialMessages ==
    << [type |-> "metrics", data |-> currentMetrics, cycle |-> 0],
       [type |-> "eventlogs", data |-> [events |-> eventLogs], cycle |-> 0],
       [type |-> "diagnostics", data |-> systemDiagnostics, cycle |-> 0] >>

\* mutant: every socket accepted so far is sent the message, whatever its state
broadcastToAll(type, data, lost) ==
    LET all == DOMAIN inbox
        n == Len(cycles[type]) + 1
    IN  /\ inbox' = [c \in DOMAIN inbox |->
                       Append(inbox[c], [type |-> type, data |-> data, cycle |-> n])]
        /\ dead' = dead \cup lost
        /\ broadcasts' = [broadcasts EXCEPT ![type] =
                            Append(@, [type |-> type, data |-> data, cycle |-> n,
                                       members |-> wssClients,
                                       sent |-> all, failed |-> {}])]
        /\ UNCHANGED <<wssClients, readyState>>

\* mutant: every client that is sent the message is dropped from wss.clients
broadcastAndDrop(type, data, lost) ==
    LET open == {c \in wssClients : readyState[c] = 1}
        failed == open \cap (dead \cup lost)
        sent == open \ failed
        n == Len(cycles[type]) + 1
    IN  /\ inbox' = [c \in DOMAIN inbox |->
                       IF c \in sent
                       THEN Append(inbox[c], [type |-> type, data |-> data, cycle |-> n])
                       ELSE inbox[c]]
        /\ dead' = dead \cup lost
        /\ broadcasts' = [broadcasts EXCEPT ![type] =
                            Append(@, [type |-> type, data |-> data, cycle |-> n,
                                       members |-> wssClients,
                                       sent |-> sent, failed |-> failed])]
        /\ wssClients' = wssClients \ sent
        /\ UNCHANGED readyState

\* the clients broadcastToClients sends to
OpenClients == {c \in wssClients : readyState[c] = OPEN}

\* mutant: every client is sent the message twice
broadcastTwice(type, data, lost) ==
    LET failed == OpenClients \cap (dead \cup lost)
        sent == OpenClients \ failed
        n == Len(cycles[type]) + 1
        m == [type |-> type, data |-> data, cycle |-> n]
    IN  /\ inbox' = [c \in DOMAIN inbox |->
                       IF c \in sent THEN inbox[c] \o <<m, m>> ELSE inbox[c]]
        /\ dead' = dead \cup lost
        /\ broadcasts' = [broadcasts EXCEPT ![type] =
                            Append(@, [type |-> type, data |-> data, cycle |-> n,
                                       members |-> wssClients,
                                       sent |-> sent, failed |-> failed])]
        /\ UNCHANGED <<wssClients, readyState>>

\* mutant: only the first open client is sent the message
broadcastToFirst(type, data, lost) ==
    LET first == {c \in OpenClients : \A d \in OpenClients : c <= d}
        failed == first \cap (dead \cup lost)
        sent == first \ failed
        n == Len(cycles[type]) + 1
    IN  /\ inbox' = [c \in DOMAIN inbox |->
                       IF c \in sent
                       THEN Append(inbox[c], [type |-> type, data |-> data, cycle |-> n])
                       ELSE inbox[c]]
        /\ dead' = dead \cup lost
        /\ broadcasts' = [broadcasts EXCEPT ![type] =
                            Append(@, [type |-> type, data |-> data, cycle |-> n,
                                       members |-> wssClients,
                                       sent |-> sent, failed |-> failed])]
        /\ UNCHANGED <<wssClients, readyState>>

\* broadcastToClients(type, data), called with what the collection that has
\* just returned (the next entry of cycles[type]) returned.  A send to a
\* socket whose peer is gone fails: nothing is delivered, nothing is thrown,
\* and the server notices only when the socket's close event arrives.
\* lost: the open sockets whose peer has gone since the last send.
\* A message records, beside type and data, the number of the collection it
\* comes from (0 for the messages of the connection handler).
broadcastToClients(type, data, lost) ==
    LET failed == OpenClients \cap (dead \cup lost)
        sent == OpenClients \ failed
        n == Len(cycles[type]) + 1
    IN  /\ inbox' = [c \in DOMAIN inbox |->
                       IF c \in sent
                       THEN Append(inbox[c], [type |-> type, data |-> data, cycle |-> n])
                       ELSE inbox[c]]
        /\ dead' = dead \cup lost
        /\ broadcasts' = [broadcasts EXCEPT ![type] =
                            Append(@, [type |-> type, data |-> data, cycle |-> n,
                                       members |-> wssClients,
                                       sent |-> sent, failed |-> failed])]
        /\ UNCHANGED <<wssClients, readyState>>

\* ------------------------------------------------------ the dashboard page
\* WebSocket.CONNECTING
CONNECTING == 0

\* the delay of the reconnect timeout and the period of the fallback
\* interval, in seconds
RECONNECT_DELAY == 5
FALLBACK_PERIOD == 5

\* the page before DOMContentLoaded
InitPage ==
    /\ loaded = FALSE
    /\ ws = <<>>
    /\ orphans = 0
    /\ reconnect = <<>>
    /\ fallback = FALLBACK_PERIOD
    /\ fetched = {}
    /\ connected = FALSE
    /\ retried = FALSE
    /\ reachable = TRUE

\* ----------------------------------------------------------------- Init
Init ==
    /\ DEMO_MODE \in BOOLEAN
    /\ listening = FALSE
    /\ currentMetrics = EmptyObj
    /\ eventLogs = <<>>
    /\ systemDiagnostics = InitialDiagnostics
    /\ metricsHistory = <<>>
    /\ running = {}
    /\ nextId = [k \in Kinds |-> 1]
    /\ now = 0
    /\ wssClients = {}
    /\ readyState = <<>>
    /\ dead = {}
    /\ inbox = <<>>
    /\ cycles = [k \in Kinds |-> <<>>]
    /\ points = <<>>
    /\ broadcasts = [k \in Kinds |-> <<>>]
    /\ responses = [k \in Kinds |-> <<>>]
    /\ process = "running"
    /\ uptime = 0
    /\ exited = <<>>
    /\ statusLog = <<>>
    /\ InitPage

\* -------------------------------------------------------------- actions
\* the process has not ended
Alive == process \in {"running", "closing"}

\* a collector is called: in demo mode it returns at once, otherwise it
\* spawns its script and awaits the close of the process
Spawn(kind, origin) ==
    running' = running \cup {[id |-> nextId[kind], kind |-> kind, origin |-> origin]}

\* the app.listen callback: one collection of every kind, results dropped
Listen ==
    /\ Alive
    /\ ~listening
    /\ listening' = TRUE
    /\ nextId' = [k \in Kinds |-> nextId[k] + 1]
    /\ IF DEMO_MODE
       THEN /\ now' = now + 1
            /\ cycles' = [k \in Kinds |->
                            Append(cycles[k], Cycle(DemoResult(k), "demo", "startup"))]
            /\ UNCHANGED running
       ELSE /\ running' = running \cup
                  { [id |-> nextId[k], kind |-> k, origin |-> "startup"] : k \in Kinds }
            /\ UNCHANGED <<now, cycles>>
    /\ UNCHANGED <<DEMO_MODE, host, probe, page, store, hub, points, broadcasts, responses>>

\* a setInterval callback of kind fires
Tick(kind) ==
    /\ Alive
    /\ listening
    /\ nextId' = [nextId EXCEPT ![kind] = @ + 1]
    /\ IF DEMO_MODE
       THEN /\ \E lost \in SUBSET (OpenClients \ dead) :
                 broadcastToClients(kind, DemoResult(kind), lost)
            /\ Logged(kind, DemoResult(kind), "demo", "timer")
            /\ now' = DemoClock(kind)
            /\ UNCHANGED running
       ELSE /\ Spawn(kind, "timer")
            /\ UNCHANGED <<now, hub, broadcasts, cycles>>
    /\ UNCHANGED <<DEMO_MODE, host, probe, page, listening, store, points, responses>>

\* GET /api/metrics, /api/eventlogs, /api/diagnostics
Pull(kind) ==
    /\ Alive
    /\ listening
    /\ nextId' = [nextId EXCEPT ![kind] = @ + 1]
    /\ IF DEMO_MODE
       THEN /\ responses' = [responses EXCEPT ![kind] =
                                Append(@, [type |-> kind, data |-> DemoResult(kind)])]
            /\ Logged(kind, DemoResult(kind), "demo", "pull")
            /\ now' = DemoClock(kind)
            /\ UNCHANGED running
       ELSE /\ Spawn(kind, "pull")
            /\ UNCHANGED <<now, responses, cycles>>
    /\ UNCHANGED <<DEMO_MODE, host, probe, page, listening, store, hub, points, broadcasts>>

\* the script process of run r closes: executePowerShellScript settles, the
\* collector resumes and stores, then its caller resumes: the timer callback
\* broadcasts what the collector returned, the route handler responds with it
Close(r, code, errorOutput, output) ==
    LET s == executePowerShellScript(code, errorOutput, output)
        data == Returned(r.kind, s)
    IN  /\ Alive
        /\ running' = running \ {r}
        /\ Collect(r.kind, s)
        /\ Logged(r.kind, data, s.settled, r.origin)
        /\ CASE r.origin = "timer" ->
                  /\ \E lost \in SUBSET (OpenClients \ dead) :
                       broadcastToClients(r.kind, data, lost)
                  /\ UNCHANGED responses
             [] r.origin = "pull" ->
                  /\ responses' = [responses EXCEPT ![r.kind] =
                                      Append(@, [type |-> r.kind, data |-> data])]
                  /\ UNCHANGED <<hub, broadcasts>>
             [] r.origin = "startup" ->
                  UNCHANGED <<hub, broadcasts, responses>>
        /\ UNCHANGED <<DEMO_MODE, host, probe, page, listening, nextId>>

\* the script process of run r cannot be launched (powershell.exe is not
\* found, no process can be created): the child emits 'error'.
\* executePowerShellScript listens to 'close' and to the data of stdout and
\* stderr only, so the event has no listener, is thrown as an uncaught
\* exception and ends the process.
SpawnError(r) ==
    /\ Alive
    /\ process' = "crashed"
    /\ UNCHANGED <<DEMO_MODE, uptime, probe, page, listening, store, running, nextId, now, hub, logs>>

\* wss.on('connection'): the socket is in wss.clients and OPEN when the
\* handler runs; the handler sends the stored data of every kind
Connect ==
    /\ process = "running"
    /\ listening
    /\ LET c == Len(readyState) + 1
       IN  /\ wssClients' = wssClients \cup {c}
           /\ readyState' = Append(readyState, OPEN)
           /\ inbox' = Append(inbox, InitialMessages)
    /\ UNCHANGED <<DEMO_MODE, host, probe, page, listening, store, running, nextId, now, dead, logs>>

\* the peer starts the closing handshake: the socket stays in wss.clients
BeginClose(c) ==
    /\ Alive
    /\ c \in wssClients
    /\ readyState[c] = OPEN
    /\ readyState' = [readyState EXCEPT ![c] = CLOSING]
    /\ UNCHANGED <<DEMO_MODE, host, probe, page, listening, store, running, nextId, now,
                   wssClients, dead, inbox, logs>>

\* ws.on('close'): the socket has closed (after a handshake, or because its
\* peer was gone) and has left wss.clients; the handler only logs
OnClose(c) ==
    /\ Alive
    /\ c \in wssClients
    /\ readyState[c] = CLOSING \/ c \in dead
    /\ readyState' = [readyState EXCEPT ![c] = CLOSED]
    /\ wssClients' = wssClients \ {c}
    /\ dead' = dead \ {c}
    /\ UNCHANGED <<DEMO_MODE, host, probe, page, listening, store, running, nextId, now, inbox, logs>>

\* collections started so far by timers and pull requests
Started ==
    LET n == nextId["metrics"] + nextId["eventlogs"] + nextId["diagnostics"] - 3
    IN  IF listening THEN n - 3 ELSE n

Next ==
    \/ Listen
    \/ \E k \in Kinds : Started < MaxCollections /\ Tick(k)
    \/ \E k \in Kinds : Started < MaxCollections /\ Pull(k)
    \/ \E r \in running, code \in ExitCodes, e \in Stderrs :
         \E out \in Stdouts(r.kind, r.id) : Close(r, code, e, out)
    \/ \E r \in running : SpawnError(r)
    \/ Len(readyState) < MaxClients /\ Connect
    \/ \E c \in wssClients : BeginClose(c)
    \/ \E c \in wssClients : OnClose(c)

Spec == Init /\ [][Next]_vars

\* -------------------------------------------- a server after its startup
\* The state once the app.listen callback has run and, on Windows, the three
\* script runs it started have closed after printing their data; no observer
\* has connected yet.
InitRun ==
    /\ DEMO_MODE \in BOOLEAN
    /\ listening = TRUE
    /\ running = {}
    /\ nextId = [k \in Kinds |-> 2]
    /\ wssClients = {}
    /\ readyState = <<>>
    /\ dead = {}
    /\ inbox = <<>>
    /\ broadcasts = [k \in Kinds |-> <<>>]
    /\ responses = [k \in Kinds |-> <<>>]
    /\ process = "running"
    /\ uptime = 0
    /\ exited = <<>>
    /\ statusLog = <<>>
    /\ InitPage
    /\ IF DEMO_MODE
       THEN /\ currentMetrics = EmptyObj
            /\ eventLogs = <<>>
            /\ systemDiagnostics = InitialDiagnostics
            /\ metricsHistory = <<>>
            /\ now = 1
            /\ cycles = [k \in Kinds |->
                           << Cycle(IF k = "diagnostics" THEN DemoDiagnostics(1)
                                    ELSE IF k = "metrics" THEN generateDemoMessage
                                    ELSE DemoEventLogs, "demo", "startup") >>]
            /\ points = <<>>
       ELSE /\ currentMetrics = ScriptData("metrics", 1)
            /\ eventLogs = ScriptData("eventlogs", 1).events
            /\ systemDiagnostics = ScriptData("diagnostics", 1)
            /\ metricsHistory = <<HistoryPoint(ScriptData("metrics", 1), 1)>>
            /\ now = 1
            /\ cycles = [k \in Kinds |-> <<Cycle(ScriptData(k, 1), "resolve", "startup")>>]
            /\ points = metricsHistory

\* collections started by timers and pull requests since InitRun
RunStarted == nextId["metrics"] + nextId["eventlogs"] + nextId["diagnostics"] - 6

NextRun ==
    \/ \E k \in Kinds : RunStarted < RunCollections /\ Tick(k)
    \/ \E k \in Kinds : RunStarted < RunCollections /\ Pull(k)
    \/ \E r \in running, code \in ExitCodes, e \in Stderrs :
         \E out \in Stdouts(r.kind, r.id) : Close(r, code, e, out)
    \/ \E r \in running : SpawnError(r)
    \/ Len(readyState) < RunClients /\ Connect
    \/ \E c \in wssClients : BeginClose(c)
    \/ \E c \in wssClients : OnClose(c)

SpecRun == InitRun /\ [][NextRun]_vars

\* --------------------------------- a server with a nearly full history
\* The state on Windows after startup and MAX_HISTORY - 2 metrics ticks,
\* every script run so far having printed its data and no observer having
\* connected: the history is one point short of MAX_HISTORY.  From here
\* only metrics collections are started.
Warm == MAX_HISTORY - 1

WarmBroadcast(i) ==
    [type |-> "metrics", data |-> ScriptData("metrics", i), cycle |-> i,
     members |-> {}, sent |-> {}, failed |-> {}]

InitWarm ==
    /\ DEMO_MODE = FALSE
    /\ listening = TRUE
    /\ running = {}
    /\ nextId = [k \in Kinds |-> IF k = "metrics" THEN Warm + 1 ELSE 2]
    /\ wssClients = {}
    /\ readyState = <<>>
    /\ dead = {}
    /\ inbox = <<>>
    /\ responses = [k \in Kinds |-> <<>>]
    /\ process = "running"
    /\ uptime = 0
    /\ exited = <<>>
    /\ statusLog = <<>>
    /\ InitPage
    /\ currentMetrics = ScriptData("metrics", Warm)
    /\ eventLogs = ScriptData("eventlogs", 1).events
    /\ systemDiagnostics = ScriptData("diagnostics", 1)
    /\ metricsHistory = [i \in 1..Warm |-> HistoryPoint(ScriptData("metrics", i), i)]
    /\ now = Warm
    /\ cycles = [k \in Kinds |->
                   IF k = "metrics"
                   THEN [i \in 1..Warm |->
                           Cycle(ScriptData("metrics", i), "resolve",
                                 IF i = 1 THEN "startup" ELSE "timer")]
                   ELSE <<Cycle(ScriptData(k, 1), "resolve", "startup")>>]
    /\ points = metricsHistory
    /\ broadcasts = [k \in Kinds |->
                       IF k = "metrics"
                       THEN [i \in 1..(Warm - 1) |-> WarmBroadcast(i + 1)]
                       ELSE <<>>]

NextWarm ==
    \/ nextId["metrics"] <= Warm + WarmCollections /\ Tick("metrics")
    \/ nextId["metrics"] <= Warm + WarmCollections /\ Pull("metrics")
    \/ \E r \in running, code \in ExitCodes, e \in Stderrs :
         \E out \in Stdouts(r.kind, r.id) : Close(r, code, e, out)
    \/ \E r \in running : SpawnError(r)

SpecWarm == InitWarm /\ [][NextWarm]_vars

\* ------------------------------------- a script exit observed, and status
\* the script process of run r ends: its exit code and what it has written
\* to stdout and stderr are now fixed; its 'close' event is still to come
Exit(r, code, errorOutput, output) ==
    /\ Alive
    /\ \A x \in Range(exited) : x.run \notin running
    /\ exited' = << [run |-> r, code |-> code, errorOutput |-> errorOutput,
                     output |-> output] >>
    /\ UNCHANGED <<DEMO_MODE, host, statusLog, page, listening, store, running,
                   nextId, now, hub, logs>>

\* the 'close' event of the script process that has ended
CloseExited ==
    \E x \in Range(exited) :
        /\ x.run \in running
        /\ Close(x.run, x.code, x.errorOutput, x.output)

\* mutant: the status reports demo mode when no script is running
StatusByActivity ==
    /\ Alive
    /\ listening
    /\ statusLog' = Append(statusLog, [status |-> "online", timestamp |-> now + 1,
                                       demoMode |-> (running = {})])
    /\ now' = now + 1
    /\ UNCHANGED <<DEMO_MODE, host, exited, page, listening, store, running, nextId,
                   hub, logs>>

\* GET /api/status
Status ==
    /\ Alive
    /\ listening
    /\ statusLog' = Append(statusLog, [status |-> "online", timestamp |-> now + 1,
                                       demoMode |-> DEMO_MODE])
    /\ now' = now + 1
    /\ UNCHANGED <<DEMO_MODE, host, exited, page, listening, store, running, nextId,
                   hub, logs>>

NextScript ==
    \/ \E k \in Kinds : RunStarted < ScriptCollections /\ Tick(k)
    \/ \E k \in Kinds : RunStarted < ScriptCollections /\ Pull(k)
    \/ \E r \in running, code \in ExitCodes, e \in Stderrs :
         \E out \in Stdouts(r.kind, r.id) : Exit(r, code, e, out)
    \/ CloseExited
    \/ \E r \in running : SpawnError(r)
    \/ Len(statusLog) < ScriptReads /\ Status

SpecScript == InitRun /\ [][NextScript]_vars

\* ------------------------------------------------------------- shutdown
\* process.on('SIGINT'): server.close(callback).  The HTTP server stops
\* accepting connections; the timers and the sockets of the observers are
\* left as they are.
Sigint ==
    /\ process = "running"
    /\ listening
    /\ process' = "closing"
    /\ UNCHANGED <<DEMO_MODE, uptime, probe, page, listening, store, running, nextId,
                   now, hub, logs>>

\* the callback of server.close, called once every connection of the server
\* has ended: process.exit(0)
ServerClosed ==
    /\ process = "closing"
    /\ wssClients = {}
    /\ process' = "exited"
    /\ UNCHANGED <<DEMO_MODE, uptime, probe, page, listening, store, running, nextId,
                   now, hub, logs>>

NextStop ==
    \/ Sigint
    \/ ServerClosed
    \/ \E k \in Kinds : RunStarted < StopCollections /\ Tick(k)
    \/ \E r \in running, code \in ExitCodes, e \in Stderrs :
         \E out \in Stdouts(r.kind, r.id) : Close(r, code, e, out)
    \/ \E r \in running : SpawnError(r)
    \/ Len(readyState) < StopClients /\ Connect
    \/ \E c \in wssClients : BeginClose(c)
    \/ \E c \in wssClients : OnClose(c)

\* Node calls the callback of server.close when the last connection has
\* ended; nothing obliges an observer to leave.
SpecStop ==
    /\ InitRun
    /\ [][NextStop]_vars
    /\ WF_vars(ServerClosed)

\* ------------------------------------------------ the timers on a clock
\* mutant: the periods of the metrics and the diagnostics timer are swapped
IntervalSwapped == [metrics |-> 30, eventlogs |-> 10, diagnostics |-> 3]

\* setInterval(callback, 3000 | 10000 | 30000): the periods in seconds
Interval == [metrics |-> 3, eventlogs |-> 10, diagnostics |-> 30]

\* calls of the collector of kind k so far, and those made by its timer
Invoked(k) == Cardinality({r \in running : r.kind = k}) + Len(cycles[k])
TimerFired(k) ==
    Cardinality({r \in running : r.kind = k /\ r.origin = "timer"})
    + Cardinality({i \in DOMAIN cycles[k] : cycles[k][i].origin = "timer"})

\* the timer of kind k has a callback to run: its n-th is due n periods
\* after the timers were set
Due(k) == TimerFired(k) < uptime \div Interval[k]

\* the setInterval callback of kind k, run when it is due
TimedTick(k) == Due(k) /\ Tick(k)

\* a second passes.  The listen callback runs as soon as the port is bound,
\* and the event loop runs a due timer callback at once, so the clock moves
\* on only when the server listens and no callback is due.
Advance ==
    /\ Alive
    /\ listening
    /\ \A k \in Kinds : ~Due(k)
    /\ uptime' = uptime + 1
    /\ UNCHANGED <<DEMO_MODE, process, probe, page, listening, store, running, nextId, now, hub, logs>>

\* no request and no observer arrives; a script run takes any time, and
\* prints its data or exits with a failure
NextTimed ==
    \/ Listen
    \/ \E k \in Kinds : TimedTick(k)
    \/ \E r \in running, code \in ExitCodes, e \in Stderrs :
         Close(r, code, e, [valid |-> TRUE, doc |-> ScriptData(r.kind, r.id), raw |-> "json"])
    \/ \E r \in running : SpawnError(r)
    \/ uptime < MaxUptime /\ Advance

SpecTimed == Init /\ [][NextTimed]_vars

\* ------------------------------------------- the timers that keep firing
\* A server after its startup whose timers fire as long as the process
\* runs (setInterval re-arms itself: weak fairness of the tick).  Nothing
\* obliges a script process to close: no fairness for Close.
NextLive ==
    \/ \E k \in Kinds : RunStarted < LiveCollections /\ Tick(k)
    \/ \E r \in running, code \in ExitCodes, e \in Stderrs :
         \E out \in Stdouts(r.kind, r.id) : Close(r, code, e, out)
    \/ \E r \in running : SpawnError(r)
    \/ Len(readyState) < LiveClients /\ Connect

SpecLive ==
    /\ InitRun
    /\ [][NextLive]_vars
    /\ WF_vars(\E k \in Kinds : RunStarted < LiveCollections /\ Tick(k))

\* ------------------------------------------- the dashboard page at work
\* The browser closes a socket in one task: readyState becomes CLOSED, then
\* the error event is fired if the connection failed, then the close event.
\* A handler below maps the pending reconnect timeouts to what they are
\* after it has run.

\* mutant: the close handler schedules no reconnect
oncloseNoRetry(timers) == timers

\* mutant: the error handler schedules a reconnect as well
onerrorRetries(timers) == Append(timers, RECONNECT_DELAY)

\* ws.onerror: logs and updates the status indicator
onerror(timers) == timers

\* ws.onclose: setTimeout(connectWebSocket, 5000)
onclose(timers) == Append(timers, RECONNECT_DELAY)

\* the socket ws names is not closed yet
WsLive == ws # <<>> /\ ws[1] # CLOSED

\* connectWebSocket(): ws = new WebSocket(wsUrl); a socket ws named before
\* is not closed by this
connectWebSocket ==
    /\ ws' = <<CONNECTING>>
    /\ orphans' = IF WsLive THEN orphans + 1 ELSE orphans

\* mutant: the fallback callback requests whatever the socket's state
ShouldPollAlways == TRUE

\* the condition of the fallback callback: !ws || ws.readyState !== WebSocket.OPEN
ShouldPoll == ws = <<>> \/ ws[1] # OPEN

\* the DOMContentLoaded handler: connectWebSocket(), then setInterval(.., 5000)
Load ==
    /\ ~loaded
    /\ loaded' = TRUE
    /\ connectWebSocket
    /\ fallback' = FALLBACK_PERIOD
    /\ UNCHANGED <<reconnect, fetched, connected, retried, reachable>>

\* the connection is established: ws.onopen
SocketOpens ==
    /\ ws = <<CONNECTING>>
    /\ reachable
    /\ ws' = <<OPEN>>
    /\ connected' = TRUE
    /\ UNCHANGED <<loaded, orphans, reconnect, fallback, fetched, retried, reachable>>

\* the connection cannot be established, or is lost: ws.onerror, then ws.onclose
SocketFails ==
    /\ WsLive
    /\ ~reachable
    /\ ws' = <<CLOSED>>
    /\ connected' = FALSE
    /\ reconnect' = onclose(onerror(reconnect))
    /\ UNCHANGED <<loaded, orphans, fallback, fetched, retried, reachable>>

\* the server starts the closing handshake: readyState becomes CLOSING
SocketClosing ==
    /\ ws = <<OPEN>>
    /\ ws' = <<CLOSING>>
    /\ UNCHANGED <<loaded, orphans, reconnect, fallback, fetched, connected, retried, reachable>>

\* the closing handshake is over: ws.onclose
SocketCloses ==
    /\ ws = <<CLOSING>>
    /\ ws' = <<CLOSED>>
    /\ connected' = FALSE
    /\ reconnect' = onclose(reconnect)
    /\ UNCHANGED <<loaded, orphans, fallback, fetched, retried, reachable>>

\* a reconnect timeout expires: connectWebSocket()
ReconnectFires ==
    /\ reconnect # <<>>
    /\ Head(reconnect) = 0
    /\ reconnect' = Tail(reconnect)
    /\ connectWebSocket
    /\ retried' = TRUE
    /\ UNCHANGED <<loaded, fallback, fetched, connected, reachable>>

\* the fallback interval callback runs: three fetches, or nothing
FallbackFires ==
    /\ loaded
    /\ fallback = 0
    /\ fallback' = FALLBACK_PERIOD
    /\ fetched' = IF ShouldPoll THEN Kinds ELSE {}
    /\ UNCHANGED <<loaded, ws, orphans, reconnect, connected, retried, reachable>>

\* a second passes on the page: no timer of the page is due
Second ==
    /\ loaded
    /\ fallback > 0
    /\ \A i \in DOMAIN reconnect : reconnect[i] > 0
    /\ fallback' = fallback - 1
    /\ reconnect' = [i \in DOMAIN reconnect |-> reconnect[i] - 1]
    /\ UNCHANGED <<loaded, ws, orphans, fetched, connected, retried, reachable>>

\* the server goes away, or comes back
ServerDown ==
    /\ reachable
    /\ reachable' = FALSE
    /\ UNCHANGED <<loaded, ws, orphans, reconnect, fallback, fetched, connected, retried>>

ServerUp ==
    /\ ~reachable
    /\ reachable' = TRUE
    /\ UNCHANGED <<loaded, ws, orphans, reconnect, fallback, fetched, connected, retried>>

\* what the page does leaves the server's variables alone
PageStep(A) ==
    /\ A
    /\ UNCHANGED <<DEMO_MODE, host, probe, listening, store, running, nextId, now, hub, logs>>

NextPage ==
    \/ PageStep(Load)
    \/ PageStep(SocketOpens)
    \/ PageStep(SocketFails)
    \/ PageStep(SocketClosing)
    \/ PageStep(SocketCloses)
    \/ PageStep(ReconnectFires)
    \/ PageStep(FallbackFires)
    \/ PageStep(Second)
    \/ PageStep(ServerDown)
    \/ PageStep(ServerUp)

\* The browser runs a due timer callback and delivers a socket's events;
\* time passes.  Nothing obliges the server to go away, to come back or to
\* close a connection.
SpecPage ==
    /\ Init
    /\ [][NextPage]_vars
    /\ WF_vars(PageStep(Load))
    /\ WF_vars(PageStep(SocketOpens))
    /\ WF_vars(PageStep(SocketFails))
    /\ WF_vars(PageStep(SocketCloses))
    /\ WF_vars(PageStep(ReconnectFires))
    /\ WF_vars(PageStep(FallbackFires))
    /\ WF_vars(PageStep(Second))

\* =================================================================== claims
\* a collection of kind k returns in this step; NewCycle(k) is its log entry
Returns(k) == Len(cycles'[k]) > Len(cycles[k])
NewCycle(k) == cycles'[k][Len(cycles'[k])]

\* a collection whose script failed: the promise was rejected (non-zero exit
\* with stderr output), or it resolved with an error object (unparsable
\* output, or the error document the script prints itself)
Failed(c) == \/ c.settled = "reject"
             \/ c.settled = "resolve" /\ Has(c.data, "error")

\* what a read of the stored data of kind k shows: the data of the message
\* the connection handler sends for k
CurrentData(k) ==
    CASE k = "metrics" -> currentMetrics
      [] k = "eventlogs" -> [events |-> eventLogs]
      [] k = "diagnostics" -> systemDiagnostics

\* C1: at most one collection per kind is in flight at any time; a trigger
\* (tick, startup, pull) that arrives while a collection of the kind is
\* running starts no second one.
C1_AtMostOneInFlight ==
    \A k \in Kinds : Cardinality({r \in running : r.kind = k}) <= 1

\* C2: the metrics history never holds more than MAX_HISTORY points, and a
\* step changes it only by appending one point at the end, after which the
\* oldest point may leave at the front.
HistoryStep ==
    \/ metricsHistory' = metricsHistory
    \/ /\ Len(metricsHistory') >= 1
       /\ LET pushed == Append(metricsHistory, Last(metricsHistory'))
          IN  metricsHistory' = pushed \/ metricsHistory' = Tail(pushed)

C2_HistoryBounded ==
    /\ [](Len(metricsHistory) <= MAX_HISTORY)
    /\ [][HistoryStep]_vars

\* C2 witness: a full history from which the oldest point has been evicted
C2_Witness ==
    /\ Len(metricsHistory) = MAX_HISTORY
    /\ Len(points) > MAX_HISTORY
    /\ metricsHistory[1] = points[Len(points) - MAX_HISTORY + 1]

\* C3: after N appended points the history is the last MAX_HISTORY of them
\* in the order they were appended, and all N of them when N <= MAX_HISTORY.
C3_HistoryIsMostRecent ==
    /\ metricsHistory = LastN(points, MAX_HISTORY)
    /\ Len(metricsHistory) = IF Len(points) > MAX_HISTORY THEN MAX_HISTORY ELSE Len(points)

\* C3 witness: two points more than the capacity have been appended
C3_Witness ==
    /\ Len(points) = MAX_HISTORY + 2
    /\ Len(metricsHistory) = MAX_HISTORY
    /\ Last(metricsHistory) = Last(points)

\* C4: a failed metrics collection never appends to the history: the history
\* is as long after the cycle as before it.
C4_FailedCycleLeavesHistory ==
    [][(Returns("metrics") /\ Failed(NewCycle("metrics")))
         => Len(metricsHistory') = Len(metricsHistory)]_vars

\* C5: a failed collection of kind K replaces the stored data of K by the
\* failure result, so that a later read shows the error.
C5_FailureIsStored ==
    [][\A k \in Kinds :
         (Returns(k) /\ Failed(NewCycle(k))) => CurrentData(k)' = NewCycle(k).data]_vars

\* the positions of the connection handler's messages in the inbox of c
InitialOf(c) == {i \in DOMAIN inbox[c] : inbox[c][i].cycle = 0}

\* C6: an observer that connects receives exactly one initial message per
\* kind, and receives all of them before any message of a broadcast.
C6_InitialMessagesFirst ==
    \A c \in DOMAIN inbox :
        /\ InitialOf(c) = 1..Cardinality(Kinds)
        /\ \A k \in Kinds : Cardinality({i \in InitialOf(c) : inbox[c][i].type = k}) = 1

\* C6 witness: an observer that has received a broadcast after its initial messages
C6_Witness ==
    \E c \in DOMAIN inbox :
        /\ Len(inbox[c]) > Cardinality(Kinds)
        /\ Last(inbox[c]).cycle > 0

\* C7: right after a cycle has published payload P for kind K the stored
\* data of K is exactly P, and an observer that joins now receives
\* {type K, data P} as its initial message for K.
C7_CurrentIsPublished ==
    [][\A k \in Kinds :
         (Returns(k) /\ ~Failed(NewCycle(k))) =>
            /\ CurrentData(k)' = NewCycle(k).data
            /\ \E i \in DOMAIN InitialMessages' :
                 InitialMessages'[i] = [type |-> k, data |-> NewCycle(k).data, cycle |-> 0]]_vars

\* C8: what a pull request for kind K obtains is the payload of the most
\* recent broadcast of K, which is also what a newly connecting observer is
\* sent for K.
Responds(k) == Len(responses'[k]) > Len(responses[k])

C8_PullEqualsPush ==
    [][\A k \in Kinds :
         Responds(k) =>
            LET pulled == Last(responses'[k]).data
            IN  /\ Len(broadcasts'[k]) > 0 => pulled = Last(broadcasts'[k]).data
                /\ pulled = CurrentData(k)']_vars

\* C9: in a broadcast a failed send to O does not keep the message from any
\* other open observer, and O has left the observer set by the time the next
\* broadcast runs.
Broadcasts(k) == Len(broadcasts'[k]) > Len(broadcasts[k])
FailedBefore ==
    UNION {UNION {broadcasts[k][i].failed : i \in DOMAIN broadcasts[k]} : k \in Kinds}

C9_FailedSendIsolatedAndEvicted ==
    [][\A k \in Kinds :
         Broadcasts(k) =>
            LET b == Last(broadcasts'[k])
            IN  /\ \A p \in OpenClients \ b.failed :
                     inbox'[p] = Append(inbox[p], [type |-> k, data |-> b.data, cycle |-> b.cycle])
                /\ b.members \cap FailedBefore = {}]_vars

\* C10: of two snapshots of one kind every observer connected for both
\* broadcasts receives the one stored first before the other, and each at
\* most once.  A broadcast message names the collection it comes from; the
\* collections of a kind are numbered in the order they returned and stored.
BroadcastOf(c) == {i \in DOMAIN inbox[c] : inbox[c][i].cycle > 0}

C10_PerKindOrder ==
    \A c \in DOMAIN inbox :
        /\ \A i \in BroadcastOf(c) :
             LET m == inbox[c][i]
             IN  /\ m.cycle <= Len(cycles[m.type])
                 /\ cycles[m.type][m.cycle].data = m.data
                 /\ cycles[m.type][m.cycle].origin = "timer"
        /\ \A i, j \in BroadcastOf(c) :
             (i < j /\ inbox[c][i].type = inbox[c][j].type)
                => inbox[c][i].cycle < inbox[c][j].cycle

\* C10 witness: an observer has received two stored snapshots of one kind
C10_Witness ==
    \E c \in DOMAIN inbox : \E i, j \in BroadcastOf(c) :
        /\ i < j
        /\ inbox[c][i].type = inbox[c][j].type
        /\ cycles[inbox[c][i].type][inbox[c][i].cycle].settled = "resolve"
        /\ cycles[inbox[c][j].type][inbox[c][j].cycle].settled = "resolve"
        /\ inbox[c][i].data # inbox[c][j].data

\* C11: when the collection of a timer tick of kind K returns, with data or
\* with a failure, broadcastToClients runs once for K in the same step: it
\* sends what the collection returned (an object with an error field after a
\* failure) to every open observer, and every observer whose send succeeds
\* receives it; no broadcast of another kind runs.  The step leaves the
\* process running, and the timer of every kind can always fire again.
TimerReturns(k) == Returns(k) /\ NewCycle(k).origin = "timer"

BroadcastOnReturn(k) ==
    LET c == NewCycle(k)
        b == Last(broadcasts'[k])
        m == [type |-> k, data |-> c.data, cycle |-> Len(cycles'[k])]
    IN  /\ Len(broadcasts'[k]) = Len(broadcasts[k]) + 1
        /\ \A j \in Kinds \ {k} : broadcasts'[j] = broadcasts[j]
        /\ b.data = c.data
        /\ b.sent \cup b.failed = OpenClients
        /\ \A p \in DOMAIN inbox :
             inbox'[p] = IF p \in b.sent THEN Append(inbox[p], m) ELSE inbox[p]
        /\ Failed(c) => Has(b.data, "error")
        /\ c.settled = "reject" => b.data.error = "powershell error"
        /\ process' = "running"

C11_TickIsBroadcast ==
    /\ [][\A k \in Kinds : TimerReturns(k) => BroadcastOnReturn(k)]_vars
    /\ []((Alive /\ listening) => \A k \in Kinds : ENABLED Tick(k))

\* C11 witness: an observer has received the error payload of a failed timer
\* cycle of a kind, and the timer of that kind has fired again since
C11_Witness ==
    \E c \in DOMAIN inbox : \E i \in BroadcastOf(c) :
        LET m == inbox[c][i]
        IN  /\ cycles[m.type][m.cycle].settled = "reject"
            /\ Has(m.data, "error")
            /\ \E r \in running : r.kind = m.type /\ r.origin = "timer"

\* C12: no collection failure (non-zero exit with stderr, unparsable output,
\* failure to launch the script process) escapes as an uncaught error: no
\* step ends the process, and a step in which a collection fails closes no
\* observer channel.
CollectionFails == \E k \in Kinds : Returns(k) /\ Failed(NewCycle(k))

C12_NoFailureEscapes ==
    [][/\ process' = "running"
       /\ CollectionFails => UNCHANGED <<wssClients, readyState>>]_vars

\* C13: collections of different kinds are independent: whatever the
\* collections of the other kinds are doing (in progress for any length of
\* time, failed), the metrics timer of a started server can fire and start
\* its collection.  Stated for the states in which no metrics collection is
\* in flight, so that only the other kinds' collections can be the obstacle.
MetricsIdle == \A r \in running : r.kind # "metrics"

C13_KindsIndependent ==
    (listening /\ MetricsIdle) => ENABLED Tick("metrics")

\* 9 seconds have passed and every timer callback due by then has run
AfterNine == uptime = 9 /\ \A k \in Kinds : ~Due(k)

\* C14: with the default intervals and no pull request, after 9 seconds the
\* metrics timer has fired 3 times and the diagnostics timer not at all;
\* with the collection the listen callback starts for every kind, the
\* metrics collector has been invoked 4 times and the diagnostics collector
\* once.
C14_InvocationsAfterNine ==
    AfterNine =>
        /\ TimerFired("metrics") = 3
        /\ TimerFired("diagnostics") = 0
        /\ Invoked("metrics") = 4
        /\ Invoked("diagnostics") = 1

\* C14 as stated: after 9 seconds the metrics collector has been invoked
\* exactly 3 times and the diagnostics collector 0 times.
C14_Original ==
    AfterNine => (Invoked("metrics") = 3 /\ Invoked("diagnostics") = 0)

\* C14 witness: a running server 9 seconds after its start, third tick fired
C14_Witness == AfterNine /\ Alive /\ TimerFired("metrics") = 3

\* a timer callback runs in this step
TimerFires == \E k \in Kinds : TimerFired(k)' > TimerFired(k)

\* the collection the listen callback started for kind k has returned
StartupReturned(k) == \E i \in DOMAIN cycles[k] : cycles[k][i].origin = "startup"

\* C15: when a timer callback runs, the listen callback has started one
\* collection of every kind, every one of them has returned, and the store
\* holds its result: the stored metrics are no longer the empty object.
C15_StartupBeforeFirstTick ==
    [][TimerFires =>
         /\ \A k \in Kinds : Invoked(k) >= 1 /\ StartupReturned(k)
         /\ currentMetrics # EmptyObj]_vars

\* C16: the stored current data of a kind never changes without a broadcast
\* of that kind in the same step, whatever started the collection.
C16_StoreChangeIsBroadcast ==
    [][\A k \in Kinds : CurrentData(k)' # CurrentData(k) => Broadcasts(k)]_vars

\* C17: a pull request starts no collection, and the step in which a pull
\* route responds leaves the current data of every kind and the history
\* unchanged.
PullStarts == \E r \in running' \ running : r.origin = "pull"
PullResponds == \E k \in Kinds : Responds(k)

C17_PullIsPureRead ==
    [][/\ ~PullStarts
       /\ PullResponds => UNCHANGED store]_vars

\* the script runs the timers can start in the runs of SpecLive
LiveRuns == [id : 2..(1 + LiveCollections), kind : Kinds, origin : {"timer"}]

\* C18: a collector invocation does not stay in flight forever: every script
\* run a timer has started is eventually over, its collection reported as
\* returned (with data or as a failure), as long as the process runs.
C18_HungRunTimesOut ==
    \A r \in LiveRuns : (r \in running) ~> (r \notin running \/ ~Alive)

\* an observer connects in this step; its inbox is the last of inbox'
Connects == Len(inbox') > Len(inbox)
NoneCompleted == \A k \in Kinds : cycles[k] = <<>>

\* C19: an observer that connects before any collection has completed is
\* sent three messages at once: metrics with the empty object, eventlogs
\* with an empty event list, diagnostics with no issues, no warnings and a
\* summary of zeros.
C19_DefaultsBeforeFirstCollection ==
    [][(Connects /\ NoneCompleted) =>
         Last(inbox') =
           << [type |-> "metrics", data |-> [x \in {} |-> x], cycle |-> 0],
              [type |-> "eventlogs", data |-> [events |-> <<>>], cycle |-> 0],
              [type |-> "diagnostics",
               data |-> [issues |-> <<>>, warnings |-> <<>>,
                         summary |-> [critical |-> 0, high |-> 0, medium |-> 0, low |-> 0]],
               cycle |-> 0] >>]_vars

\* C19 witness: an observer is connected, the startup collections of a
\* Windows server are still running and none has completed
C19_Witness ==
    /\ ~DEMO_MODE
    /\ NoneCompleted
    /\ Cardinality(running) = Cardinality(Kinds)
    /\ Len(inbox) >= 1
    /\ Len(inbox[1]) = Cardinality(Kinds)

\* C20: a closed observer channel stays closed and outside the observer
\* set, and no step delivers a message to it; an observer that connects
\* is a new channel holding only the three initial messages.
C20_ClosedStaysClosed ==
    [][/\ \A c \in DOMAIN readyState :
            readyState[c] = CLOSED =>
              /\ readyState'[c] = CLOSED
              /\ c \notin wssClients'
              /\ inbox'[c] = inbox[c]
       /\ Connects =>
            /\ DOMAIN inbox' = DOMAIN inbox \cup {Len(inbox) + 1}
            /\ \A i \in DOMAIN Last(inbox') : Last(inbox')[i].cycle = 0]_vars

\* C20 witness: a second observer has received a broadcast that ran after
\* the first had closed, and the first has not received it
C20_Witness ==
    \E c, d \in DOMAIN inbox : \E k \in Kinds : \E i \in DOMAIN broadcasts[k] :
        /\ c < d
        /\ readyState[c] = CLOSED
        /\ c \notin broadcasts[k][i].members
        /\ d \in broadcasts[k][i].sent
        /\ \A j \in DOMAIN inbox[c] : inbox[c][j].cycle = 0

\* C21: in demo mode every metrics collection yields generated metrics (an
\* object with cpu and memory figures), which are stored as current and
\* add a point to the history; every event log collection yields generated
\* events, which are stored.
C21_DemoDataIsStored ==
    [][DEMO_MODE =>
         /\ Returns("metrics") =>
              /\ Has(NewCycle("metrics").data, "cpu")
              /\ Has(NewCycle("metrics").data, "memory")
              /\ currentMetrics' = NewCycle("metrics").data
              /\ Len(points') = Len(points) + 1
         /\ Returns("eventlogs") =>
              /\ NewCycle("eventlogs").data.events # <<>>
              /\ eventLogs' = NewCycle("eventlogs").data.events]_vars

\* the socket of the page closes in this step
PageSocketCloses == WsLive /\ ws' = <<CLOSED>>

\* a reconnect timeout leaves the pending ones in this step
TimeoutRuns == Len(reconnect') < Len(reconnect)

\* C22: every close of the page's socket sets one reconnect timeout of 5
\* seconds; a timeout runs only when its 5 seconds have passed, and then
\* starts a new connection attempt; and when the server stays reachable
\* from some time on, the page's socket is open again and again.
C22_ReconnectAfterClose ==
    /\ [][PageSocketCloses => reconnect' = Append(reconnect, 5)]_vars
    /\ [][TimeoutRuns => (Head(reconnect) = 0 /\ ws' = <<CONNECTING>>)]_vars
    /\ [][\A i \in DOMAIN reconnect \cap DOMAIN reconnect' :
            reconnect'[i] # reconnect[i] =>
               \/ reconnect'[i] = reconnect[i] - 1 /\ fallback' = fallback - 1
               \/ TimeoutRuns]_vars
    /\ (<>[]reachable => []<>(ws = <<OPEN>>))

\* C22 witness: the page is connected again after a close and a reconnect
C22_Witness == retried /\ reachable /\ ws = <<OPEN>> /\ connected

\* the fallback callback runs in this step
FallbackRuns == fallback = 0 /\ fallback' = 5

\* C23: the fallback callback, which runs every 5 seconds, requests the
\* three kinds when ws is null or its socket is not OPEN, and requests
\* nothing while the socket is OPEN; no other step of the page requests.
C23_PollOnlyWhenNotOpen ==
    [][IF FallbackRuns
       THEN fetched' = IF ws = <<>> \/ ws[1] # 1 THEN Kinds ELSE {}
       ELSE fetched' = fetched /\ fallback' \in {fallback, fallback - 1}]_vars

\* C23 witness: the socket is open again and the fallback callback, which
\* polled while the socket was closed, has just run without requesting
C23_Witness ==
    retried /\ ws = <<OPEN>> /\ fetched = {} /\ fallback = FALLBACK_PERIOD

\* sockets of the page that are not closed, and those connecting or open
LiveSockets == orphans + (IF WsLive THEN 1 ELSE 0)
ConnectingOrOpen ==
    orphans + (IF ws # <<>> /\ ws[1] \in {CONNECTING, OPEN} THEN 1 ELSE 0)

\* C29: once the page is initialized it has exactly one of: a socket that
\* is not closed yet (connecting, open or closing), or one pending
\* reconnect timeout; never two of either, never one of each.
C29_OneSocketOrOneTimer ==
    loaded => LiveSockets + Len(reconnect) = 1

\* C29 as stated: exactly one of a socket that is connecting or open, or
\* one pending reconnect timeout.
C29_Original ==
    loaded => ConnectingOrOpen + Len(reconnect) = 1

\* C29 witness: after an error and close of the second socket the page
\* holds one pending reconnect timeout and no socket
C29_Witness ==
    retried /\ ~reachable /\ ws = <<CLOSED>> /\ Len(reconnect) = 1 /\ orphans = 0

\* the observer set or the state of a socket changes in this step
HubChanges == wssClients' # wssClients \/ readyState' # readyState

\* C24: a step that handles a new connection or the close of an observer
\* leaves the stored data of every kind, the history and the collections
\* alone; a broadcast of kind K leaves the stored data of the other kinds
\* alone; and a step in which a collection returns takes no observer out of
\* the observer set but one whose send failed in that step, and adds none.
C24_StoreAndObserverFrames ==
    [][/\ HubChanges => (UNCHANGED <<store, running, cycles, points>>)
       /\ \A k \in Kinds :
            Broadcasts(k) =>
               \A j \in Kinds \ {k} : CurrentData(j)' = CurrentData(j)
       /\ \A k \in Kinds :
            Returns(k) =>
               /\ wssClients' \subseteq wssClients
               /\ Broadcasts(k) =>
                    (wssClients \ wssClients') \subseteq Last(broadcasts'[k]).failed
               /\ ~Broadcasts(k) => wssClients' = wssClients]_vars

\* C24 witness: with data stored by a collection, an observer has connected,
\* received a broadcast and closed, and the stored data is still that of the
\* latest collection
C24_Witness ==
    \E c \in DOMAIN inbox :
        /\ readyState[c] = CLOSED
        /\ \E i \in BroadcastOf(c) : inbox[c][i].type = "diagnostics"
        /\ Len(cycles["diagnostics"]) >= 2
        /\ Last(cycles["diagnostics"]).settled = "resolve"
        /\ systemDiagnostics = Last(cycles["diagnostics"]).data

\* C25: every point appended to the history comes from a metrics collection
\* that stores its data as current in the same step: the point's cpu is the
\* data's cpu and its memory the data's memory.percent (0 for a field the
\* data lacks), the broadcast of the step, if any, carries the same data;
\* and every assignment of the current metrics appends exactly one point.
C25_PointFromStoredSnapshot ==
    [][/\ points' # points =>
            /\ Returns("metrics")
            /\ LET d == NewCycle("metrics").data
                    pt == Last(points')
               IN  /\ points' = Append(points, pt)
                   /\ currentMetrics' = d
                   /\ pt.cpu = (IF "cpu" \in DOMAIN d THEN d.cpu ELSE 0)
                   /\ pt.memory = (IF "memory" \in DOMAIN d THEN d.memory.percent ELSE 0)
                   /\ Last(metricsHistory') = pt
                   /\ Broadcasts("metrics") => Last(broadcasts'["metrics"]).data = d
       /\ (Returns("metrics") /\ NewCycle("metrics").settled = "resolve") =>
            Len(points') = Len(points) + 1
       /\ points' = points => currentMetrics' = currentMetrics]_vars

\* C25 witness: a timer cycle has stored and broadcast metrics with cpu and
\* memory figures, and the newest history point carries them
C25_Witness ==
    /\ Len(points) >= 2
    /\ Len(broadcasts["metrics"]) >= 1
    /\ Last(broadcasts["metrics"]).data = currentMetrics
    /\ Has(currentMetrics, "cpu")
    /\ Last(metricsHistory).cpu = currentMetrics.cpu
    /\ Last(metricsHistory).memory = currentMetrics.memory.percent

\* C26: the stored current metrics never go from the result of a collection
\* to the result of one that was started earlier, and neither do the
\* broadcasts.  A script document carries the number of its run, and the
\* runs of a kind are numbered in the order they are started.
C26_NoStaleOverwrite ==
    [][/\ (Has(currentMetrics, "timestamp") /\ Has(currentMetrics', "timestamp"))
            => currentMetrics'.timestamp >= currentMetrics.timestamp
       /\ (Broadcasts("metrics") /\ Len(broadcasts["metrics"]) > 0
            /\ Has(Last(broadcasts["metrics"]).data, "timestamp")
            /\ Has(Last(broadcasts'["metrics"]).data, "timestamp"))
            => Last(broadcasts'["metrics"]).data.timestamp
                 >= Last(broadcasts["metrics"]).data.timestamp]_vars

\* a script run is over in this step
ScriptCloses == running' # running /\ running' \subseteq running

\* C27: when the script process of a run closes, executePowerShellScript
\* settles once: the run is over for good and its collection returns once.
\* It rejects exactly when the exit code is not 0 and stderr is not empty
\* (the collector then returns the stderr text as error); otherwise it
\* resolves, with the parsed document when stdout is JSON and with
\* {error: 'Failed to parse JSON', raw} when it is not.
C27_SettlesOncePerClose ==
    [][/\ ScriptCloses =>
            \E x \in Range(exited) :
            LET k == x.run.kind
                c == NewCycle(k)
            IN  /\ running' = running \ {x.run}
                /\ Len(cycles'[k]) = Len(cycles[k]) + 1
                /\ \A j \in Kinds \ {k} : cycles'[j] = cycles[j]
                /\ c.settled \in {"reject", "resolve"}
                /\ (c.settled = "reject") <=> (x.code # 0 /\ x.errorOutput # "")
                /\ c.settled = "reject" => c.data.error = x.errorOutput
                /\ c.settled = "resolve" =>
                     c.data = IF x.output.valid
                              THEN x.output.doc
                              ELSE [error |-> "Failed to parse JSON", raw |-> x.output.raw]
       /\ \A r \in running' \ running : r.id = nextId[r.kind]]_vars

\* C27 witness: a script has exited with a non-zero code and empty stderr
\* after printing JSON, and its collection has returned the document
C27_Witness ==
    \E x \in Range(exited) :
        /\ x.code # 0
        /\ x.errorOutput = ""
        /\ x.output.valid
        /\ x.run \notin running
        /\ Alive
        /\ LET c == Last(cycles[x.run.kind])
           IN  c.settled = "resolve" /\ c.data = x.output.doc

\* C30: every status response carries the same demoMode flag, and the flag
\* is true exactly when the collections return the simulated result without
\* running a script: with the flag true no script run is ever in flight and
\* every collection has returned the demo result, with the flag false none
\* has.
C30_DemoFlagIsFixed ==
    \A i \in DOMAIN statusLog :
        /\ \A j \in DOMAIN statusLog : statusLog[j].demoMode = statusLog[i].demoMode
        /\ statusLog[i].demoMode => running = {}
        /\ \A k \in Kinds : \A n \in DOMAIN cycles[k] :
             (cycles[k][n].settled = "demo") <=> statusLog[i].demoMode

\* C30 witness: two status reads with a metrics collection stored between them
C30_Witness ==
    /\ Len(statusLog) = 2
    /\ \E i \in DOMAIN points :
         /\ statusLog[1].timestamp < points[i].timestamp
         /\ points[i].timestamp < statusLog[2].timestamp

\* C28: after SIGINT the process eventually exits, and from SIGINT on no
\* timer callback starts a collection and no broadcast runs.
C28_SigintStopsEverything ==
    /\ (process = "closing") ~> (process = "exited")
    /\ [][process = "closing" => (~TimerFires /\ broadcasts' = broadcasts)]_vars

====
